---- MODULE Spec2Model ----
(***************************************************************************)
(* A model of the underwriting engine of the Aequitas dashboard:          *)
(* frontend/src/pages/MarketAnalysis.tsx, the financial utilities          *)
(* calculatePMT, npv and calculateIRR and the metrics computation of the   *)
(* Underwriting page.                                                      *)
(*                                                                         *)
(* Numbers.  The program computes with JavaScript numbers (IEEE-754        *)
(* doubles).  The model computes with a fixed-point format that keeps the  *)
(* special values and the rounding structure of that arithmetic: a finite  *)
(* number is an integer count of 1/Scale, every operation rounds its exact *)
(* result to the nearest representable number, a result whose magnitude    *)
(* exceeds MaxMag/Scale overflows to an infinity, a quotient below the     *)
(* resolution underflows to zero, x/0 is an infinity (NaN for 0/0), and    *)
(* NaN propagates and compares false.  Only the resolution and the range   *)
(* are smaller than a double's.                                            *)
(***************************************************************************)
EXTENDS Integers, Sequences, FiniteSets, TLC

\* Resolution of the number format: a finite number is v/Scale, Scale being
\* ScaleDigits decimal digits.
ScaleDigits == 3
Scale == 10 ^ ScaleDigits

\* Overflow threshold of the number format: |v| > MaxMag is an infinity.
\* MaxMag is a multiple of Scale, and 10 * MaxMag stays below 2^31.
MaxMag == 200000000

Fin(n) == [k |-> "fin", v |-> n]
PosInf == [k |-> "inf", v |-> 1]
NegInf == [k |-> "inf", v |-> -1]
NaN == [k |-> "nan", v |-> 0]

IsNaN(x) == x.k = "nan"
IsInf(x) == x.k = "inf"
IsFin(x) == x.k = "fin"
IsZero(x) == x.k = "fin" /\ x.v = 0

AbsInt(n) == IF n < 0 THEN -n ELSE n
SgnInt(n) == IF n < 0 THEN -1 ELSE 1

\* The sign of a number that is not NaN (zero counts as positive: every zero
\* the program divides by is +0, the result of a subtraction or of 0/100).
Sgn(x) == IF x.v < 0 THEN -1 ELSE 1

Inf(s) == IF s < 0 THEN NegInf ELSE PosInf

\* An exact integer result, overflowing to an infinity beyond MaxMag.
Norm(n) == IF AbsInt(n) > MaxMag THEN Inf(SgnInt(n)) ELSE Fin(n)

\* a / b rounded to the nearest integer (ties away from zero), b > 0.
RoundDiv(a, b) == SgnInt(a) * ((AbsInt(a) + (b \div 2)) \div b)

\* a * b / Scale for a, b in 0 .. MaxMag, rounded to the nearest integer, or
\* MaxMag + 1 when it exceeds MaxMag.  The factors are split at Scale so that
\* no partial product leaves the 32-bit integers.
MulMag(a, b) ==
  LET a1 == a \div Scale
      a0 == a % Scale
      b1 == b \div Scale
      b0 == b % Scale
  IN IF a1 > 0 /\ b1 > (MaxMag \div Scale) \div a1 THEN MaxMag + 1
     ELSE a1 * b1 * Scale + a1 * b0 + a0 * b1 + RoundDiv(a0 * b0, Scale)

\* The long division of r * 10^digits by b, continuing the quotient q.
RECURSIVE LongDiv(_, _, _, _)
LongDiv(q, r, b, digits) ==
  IF digits = 0 THEN (IF 2 * r >= b THEN q + 1 ELSE q)
  ELSE LongDiv(q * 10 + (r * 10) \div b, (r * 10) % b, b, digits - 1)

\* a * Scale / b for a in 0 .. MaxMag and b in 1 .. MaxMag, rounded to the
\* nearest integer, or MaxMag + 1 when it exceeds MaxMag.
DivMag(a, b) ==
  IF a \div b > MaxMag \div Scale THEN MaxMag + 1
  ELSE LongDiv(a \div b, a % b, b, ScaleDigits)

\* An integer of the source as a number.
Num(i) == Norm(i * Scale)

\* A decimal literal of the source, n/d, as a number.
Dec(n, d) == Fin(RoundDiv(n * Scale, d))

Neg(x) == IF IsNaN(x) THEN NaN ELSE [k |-> x.k, v |-> -x.v]

Abs(x) == IF IsNaN(x) THEN NaN ELSE [k |-> x.k, v |-> AbsInt(x.v)]

\* x + y
Add(x, y) ==
  IF IsNaN(x) \/ IsNaN(y) THEN NaN
  ELSE IF IsInf(x) /\ IsInf(y) THEN (IF x.v = y.v THEN x ELSE NaN)
  ELSE IF IsInf(x) THEN x
  ELSE IF IsInf(y) THEN y
  ELSE Norm(x.v + y.v)

\* x - y
Sub(x, y) == Add(x, Neg(y))

\* x * y
Mul(x, y) ==
  IF IsNaN(x) \/ IsNaN(y) THEN NaN
  ELSE IF IsZero(x) \/ IsZero(y) THEN (IF IsInf(x) \/ IsInf(y) THEN NaN ELSE Fin(0))
  ELSE IF IsInf(x) \/ IsInf(y) THEN Inf(Sgn(x) * Sgn(y))
  ELSE Norm(Sgn(x) * Sgn(y) * MulMag(AbsInt(x.v), AbsInt(y.v)))

\* x / y
Div(x, y) ==
  IF IsNaN(x) \/ IsNaN(y) THEN NaN
  ELSE IF IsInf(x) /\ IsInf(y) THEN NaN
  ELSE IF IsInf(x) THEN Inf(Sgn(x) * Sgn(y))
  ELSE IF IsInf(y) THEN Fin(0)
  ELSE IF IsZero(y) THEN (IF IsZero(x) THEN NaN ELSE Inf(Sgn(x)))
  ELSE Norm(Sgn(x) * Sgn(y) * DivMag(AbsInt(x.v), AbsInt(y.v)))

\* Math.pow(x, n) for a whole number n >= 0, by squaring: Math.pow(x, 0) is 1
\* for every x, NaN included.
RECURSIVE Pow(_, _)
Pow(x, n) ==
  IF n <= 0 THEN Num(1)
  ELSE IF n = 1 THEN x
  ELSE IF n % 2 = 0 THEN LET h == Pow(x, n \div 2) IN Mul(h, h)
  ELSE Mul(Pow(x, n - 1), x)

\* Math.abs(x) < precision, for the literal precision = precisionNum/precisionDen
\* (compared exactly: the literal is below the resolution of the format).
precisionNum == 1
precisionDen == 100000
BelowPrecision(x) ==
  /\ IsFin(x)
  /\ AbsInt(x.v) < Scale
  /\ AbsInt(x.v) * precisionDen < precisionNum * Scale

\* const maxIter = 1000
maxIter == 1000

\* guess = 0.1
guess == Dec(1, 10)

(***************************************************************************)
(* The financial utilities.                                                *)
(***************************************************************************)

\* The amortization formula with no case for a zero rate.
calculatePMT_NoZeroCase(r, nper, pv) ==
  LET pvif == Pow(Add(Num(1), r), nper)
  IN Neg(Div(Mul(Mul(r, pv), pvif), Sub(pvif, Num(1))))

\* calculatePMT(rate, nper, pv); nper is a whole number of months >= 0.
calculatePMT(r, nper, pv) ==
  IF IsZero(r) THEN Neg(Div(pv, Num(nper)))
  ELSE LET pvif == Pow(Add(Num(1), r), nper)
       IN Neg(Div(Mul(Mul(r, pv), pvif), Sub(pvif, Num(1))))

\* values.reduce((acc, val, i) => acc + val / Math.pow(1 + rate, i), 0),
\* the fold taken from element i on with accumulator acc.
RECURSIVE npvFrom(_, _, _, _)
npvFrom(r, values, i, acc) ==
  IF i > Len(values) THEN acc
  ELSE npvFrom(r, values, i + 1,
               Add(acc, Div(values[i], Pow(Add(Num(1), r), i - 1))))

npv(r, values) == npvFrom(r, values, 1, Fin(0))

\* values.reduce((acc, val, j) => acc - (j * val) / Math.pow(1 + rate, j + 1), 0)
RECURSIVE derivFrom(_, _, _, _)
derivFrom(r, values, i, acc) ==
  IF i > Len(values) THEN acc
  ELSE derivFrom(r, values, i + 1,
                 Sub(acc, Div(Mul(Num(i - 1), values[i]),
                              Pow(Add(Num(1), r), i))))

npvDerivative(r, values) == derivFrom(r, values, 1, Fin(0))

\* A loop that makes one pass more.
IterCond_Inclusive(i) == i <= maxIter

\* The loop condition of calculateIRR: i < maxIter.
IterCond(i) == i < maxIter

(***************************************************************************)
(* The metrics computation of the Underwriting page.  A parameter record q *)
(* holds the eleven inputs the computation reads: totalUnits,              *)
(* loanTermYears, ltv and holdingPeriod as whole numbers, the others as    *)
(* counts of 1/Scale (money in money units, rates and ratios as fractions).*)
(***************************************************************************)

totalProjectCost(q) ==
  Add(Add(Fin(q.purchasePrice), Fin(q.constructionCost)), Fin(q.closingCosts))

\* The loan-to-value taken as a fraction, not a percentage.
loanAmount_LtvAsFraction(q) == Mul(totalProjectCost(q), Num(q.ltv))

loanAmount(q) == Mul(totalProjectCost(q), Div(Num(q.ltv), Num(100)))

equityRequired(q) == Sub(totalProjectCost(q), loanAmount(q))

\* The term passed in years where months are wanted.
annualDebtService_TermInYears(q) ==
  Mul(Mul(calculatePMT(Div(Fin(q.interestRate), Num(12)), q.loanTermYears,
                       loanAmount(q)),
          Num(12)),
      Num(-1))

annualDebtService(q) ==
  Mul(Mul(calculatePMT(Div(Fin(q.interestRate), Num(12)), q.loanTermYears * 12,
                       loanAmount(q)),
          Num(12)),
      Num(-1))

grossPotentialRent(q) == Mul(Mul(Num(q.totalUnits), Fin(q.avgMonthlyRent)), Num(12))

\* A vacancy allowance of 10%.
vacancyLoss_TenPercent(q) == Mul(grossPotentialRent(q), Dec(10, 100))

vacancyLoss(q) == Mul(grossPotentialRent(q), Dec(5, 100))

effectiveGrossIncome(q) == Sub(grossPotentialRent(q), vacancyLoss(q))

operatingExpenses(q) == Mul(effectiveGrossIncome(q), Fin(q.operatingExpenseRatio))

\* The operands of the subtraction swapped.
netOperatingIncome_Swapped(q) == Sub(operatingExpenses(q), effectiveGrossIncome(q))

netOperatingIncome(q) == Sub(effectiveGrossIncome(q), operatingExpenses(q))

\* A projection that stops one year short.
YearCond_Exclusive(year, hold) == year < hold

\* Growth applied in the first year too.
GrowNOI_EveryYear(year, projectedNOI) == Mul(projectedNOI, Dec(102, 100))

\* The loop condition of the projection: year <= holdingPeriod.
YearCond(year, hold) == year <= hold

\* if (year > 1) projectedNOI *= 1.02
GrowNOI(year, projectedNOI) ==
  IF year > 1 THEN Mul(projectedNOI, Dec(102, 100)) ELSE projectedNOI

\* The projection loop from `year` on; its locals are projectedNOI,
\* annualCashFlows and irrStream.
RECURSIVE Projection(_, _, _, _, _, _)
Projection(year, hold, projectedNOI, ads, annualCashFlows, irrStream) ==
  IF ~YearCond(year, hold)
  THEN [projectedNOI |-> projectedNOI,
        annualCashFlows |-> annualCashFlows,
        irrStream |-> irrStream]
  ELSE LET grown == GrowNOI(year, projectedNOI)
           cashFlow == Sub(grown, ads)
       IN Projection(year + 1, hold, grown, ads,
                     Append(annualCashFlows, cashFlow),
                     Append(irrStream, cashFlow))

\* The sale proceeds added to the last element twice.
AddSaleProceeds_Twice(irrStream, saleProceeds) ==
  [irrStream EXCEPT ![Len(irrStream)] = Add(Add(@, saleProceeds), saleProceeds)]

\* The sale proceeds pushed as an element of their own.
AddSaleProceeds_Appended(irrStream, saleProceeds) ==
  Append(irrStream, saleProceeds)

\* irrStream[irrStream.length - 1] += saleProceeds
AddSaleProceeds(irrStream, saleProceeds) ==
  [irrStream EXCEPT ![Len(irrStream)] = Add(@, saleProceeds)]

\* irrStream.reduce((a, b) => a + b, 0)
RECURSIVE SumFrom(_, _, _)
SumFrom(s, i, acc) == IF i > Len(s) THEN acc ELSE SumFrom(s, i + 1, Add(acc, s[i]))

StreamTotal(irrStream) == SumFrom(irrStream, 1, Fin(0))

\* The multiple without the equity added back.
totalReturn_NoEquity(irrStream, equity) == Div(StreamTotal(irrStream), equity)

\* (irrStream.reduce((a, b) => a + b, 0) + equityRequired) / equityRequired
totalReturn(irrStream, equity) == Div(Add(StreamTotal(irrStream), equity), equity)

\* A loan balance reduced by the debt service paid over the hold.
loanBalance_PaidDown(q) ==
  Sub(loanAmount(q), Mul(annualDebtService(q), Num(q.holdingPeriod)))

\* const loanBalance = loanAmount
loanBalance(q) == loanAmount(q)

\* The locals of the computation up to the call of calculateIRR.
Locals(q) ==
  LET ads == annualDebtService(q)
      proj == Projection(1, q.holdingPeriod, netOperatingIncome(q), ads,
                         <<>>, <<Neg(equityRequired(q))>>)
      exitNOI == Mul(proj.projectedNOI, Dec(102, 100))
      salePrice == Div(exitNOI, Fin(q.exitCapRate))
      saleProceeds == Sub(salePrice, loanBalance(q))
  IN [totalProjectCost |-> totalProjectCost(q),
      loanAmount |-> loanAmount(q),
      equityRequired |-> equityRequired(q),
      annualDebtService |-> ads,
      netOperatingIncome |-> netOperatingIncome(q),
      annualCashFlows |-> proj.annualCashFlows,
      salePrice |-> salePrice,
      saleProceeds |-> saleProceeds,
      irrStream |-> AddSaleProceeds(proj.irrStream, saleProceeds)]

NoLocals ==
  [totalProjectCost |-> Fin(0), loanAmount |-> Fin(0), equityRequired |-> Fin(0),
   annualDebtService |-> Fin(0), netOperatingIncome |-> Fin(0),
   annualCashFlows |-> <<>>, salePrice |-> Fin(0), saleProceeds |-> Fin(0),
   irrStream |-> <<>>]

NoMetrics ==
  [totalProjectCost |-> Fin(0), loanAmount |-> Fin(0), equityRequired |-> Fin(0),
   netOperatingIncome |-> Fin(0), annualDebtService |-> Fin(0),
   annualCashFlows |-> <<>>, salePrice |-> Fin(0), irr |-> Fin(0),
   totalReturn |-> Fin(0)]

(***************************************************************************)
(* The inputs.  The money unit is $100,000, so that the default state of   *)
(* the page is representable: a rent of $1,200 is 0.012 money units.       *)
(***************************************************************************)
MaxHold == 3
MaxUnits == 3

\* The default state of the page (the useState initial values).
DefaultParams ==
  [totalUnits |-> 200, purchasePrice |-> 150 * Scale,
   constructionCost |-> 250 * Scale, closingCosts |-> 30 * Scale,
   avgMonthlyRent |-> (12 * Scale) \div 1000,
   operatingExpenseRatio |-> (35 * Scale) \div 100,
   interestRate |-> (65 * Scale) \div 1000,
   loanTermYears |-> 30, ltv |-> 75, exitCapRate |-> (6 * Scale) \div 100,
   holdingPeriod |-> 10]

\* Parameter records that satisfy the data model's invariant ...
UnitsSet == {100 * u : u \in 0 .. MaxUnits}
HoldSet == 1 .. MaxHold
RentSet == {(12 * Scale) \div 1000, (20 * Scale) \div 1000}
InterestSet == {0, (65 * Scale) \div 1000}
LtvSet == {75, 100}

ValidSet ==
  {[DefaultParams EXCEPT !.totalUnits = u, !.avgMonthlyRent = r,
                         !.interestRate = i, !.ltv = l, !.holdingPeriod = h] :
     u \in UnitsSet, r \in RentSet, i \in InterestSet, l \in LtvSet, h \in HoldSet}

\* ... and records that break it: the number fields of the page accept any
\* number, and turn an empty field into 0.
InvalidSet ==
  {[DefaultParams EXCEPT !.exitCapRate = 0],
   [DefaultParams EXCEPT !.holdingPeriod = 0],
   [DefaultParams EXCEPT !.loanTermYears = 0],
   [DefaultParams EXCEPT !.totalUnits = -1],
   [DefaultParams EXCEPT !.exitCapRate = 0, !.holdingPeriod = 0]}

\* Records of other loans, of a rate and terms the number format resolves to
\* half a percent of the payment, and of the extreme expense ratios.
LoanRateSet == {(12 * Scale) \div 100}
LoanTermSet == {5, 10}
RatioSet == {0, Scale}

LoanSet ==
  {[DefaultParams EXCEPT !.interestRate = i, !.loanTermYears = t,
                         !.holdingPeriod = 1] :
     i \in LoanRateSet, t \in LoanTermSet}

EdgeSet ==
  {[DefaultParams EXCEPT !.operatingExpenseRatio = o, !.totalUnits = u,
                         !.holdingPeriod = 1] :
     o \in RatioSet, u \in {0, 200}}

ParamSet == {DefaultParams} \cup ValidSet \cup LoanSet \cup EdgeSet \cup InvalidSet

\* The cash-flow sequences calculateIRR is run on directly: every sequence
\* of 1 .. MaxLen flows, each a loss, nothing or a gain (in 1/Scale), in
\* small and in large money.
MaxLen == 3
FlowSet == {-2 * Scale, 0, Scale + Scale \div 10}
MoneySet == {1, 100}
StreamSet ==
  UNION {[1 .. n -> {Fin(f * m) : f \in FlowSet}] : n \in 1 .. MaxLen, m \in MoneySet}

(***************************************************************************)
(* State.  p: the parameters the computation runs on.  pc: where the       *)
(* computation stands ("start": not begun; "irr": inside calculateIRR;     *)
(* "irrdone": calculateIRR has returned; "returned": the metrics record is *)
(* returned).  loc: the locals of the metrics computation.  values, rate,  *)
(* iter, irrRet: calculateIRR's argument, its locals rate and i, and the   *)
(* value it returns.  metrics: the record returned.  ui: the deal          *)
(* parameters held by the page (its useState values).  memoDeps: the       *)
(* dependency values useMemo keeps with the memoized metrics.  dealName: a *)
(* state of the page that is no parameter.  edits: the number of edits     *)
(* made.  calls: what every run of the computation was given and returned, *)
(* in order.                                                               *)
(***************************************************************************)
VARIABLES p, pc, loc, values, rate, iter, irrRet, metrics,
          ui, memoDeps, dealName, edits, calls

(***************************************************************************)
(* risk, riskDeps: the memoized risk flags of the page and the dependency  *)
(* values useMemo keeps with them (<<>> before the first render).          *)
(***************************************************************************)
VARIABLES risk, riskDeps

(***************************************************************************)
(* The market data of the page: zipcode, demographics, loadingDemographics *)
(* and demographicsError are its useState values (<<>> is null); request   *)
(* is the fetch in flight (<<>> when there is none, <<zip>> for the ZIP    *)
(* code asked); lastResponse is what the last fetch that completed was    *)
(* answered (<<>> before); fetches counts the clicks on Fetch Data.        *)
(***************************************************************************)
VARIABLES zipcode, demographics, loadingDemographics, demographicsError,
          request, lastResponse, fetches

(***************************************************************************)
(* GeocodingService: cache, requestQueue, isProcessing and lastRequestTime *)
(* are its fields.  now is the clock (Date.now(), in ms).  loops holds the *)
(* invocations of processQueue that are suspended at an await.  geoCalls   *)
(* holds, per call of the service in order, what was asked and what became *)
(* of it.  trace records when queued requests were enqueued, started and   *)
(* completed.  ticks counts the steps of the clock.                        *)
(***************************************************************************)
VARIABLES cache, requestQueue, isProcessing, lastRequestTime,
          now, loops, geoCalls, trace, ticks

(***************************************************************************)
(* runs: the computations that several callers of the engine have under    *)
(* way, each with its own input and locals.  done: the computations that   *)
(* have returned, in the order of their return.                            *)
(***************************************************************************)
VARIABLES runs, done

riskVars == <<risk, riskDeps>>

fetchVars == <<zipcode, demographics, loadingDemographics, demographicsError,
               request, lastResponse, fetches>>

geoVars == <<cache, requestQueue, isProcessing, lastRequestTime,
             now, loops, geoCalls, trace, ticks>>

concVars == <<runs, done>>

svcVars == <<fetchVars, geoVars, concVars>>

engineVars == <<p, pc, loc, values, rate, iter, irrRet, metrics, calls>>

pageVars == <<ui, memoDeps, dealName, edits>>

vars == <<engineVars, pageVars, riskVars, svcVars>>

\* A dependency list that leaves exitCapRate out.
Deps_WithoutExitCapRate(q) ==
  <<q.purchasePrice, q.constructionCost, q.closingCosts, q.totalUnits,
    q.avgMonthlyRent, q.operatingExpenseRatio, q.interestRate, q.loanTermYears,
    q.ltv, q.holdingPeriod>>

\* The dependency list of the metrics useMemo, for the parameters q.
Deps(q) ==
  <<q.purchasePrice, q.constructionCost, q.closingCosts, q.totalUnits,
    q.avgMonthlyRent, q.operatingExpenseRatio, q.interestRate, q.loanTermYears,
    q.ltv, q.exitCapRate, q.holdingPeriod>>

\* useState('New Development Project')
DefaultDealName == "New Development Project"

\* useState('95814')
DefaultZipcode == "95814"

\* The market data state of the page at its first render.
InitFetchState ==
  /\ zipcode = DefaultZipcode
  /\ demographics = <<>>
  /\ loadingDemographics = FALSE
  /\ demographicsError = <<>>
  /\ request = <<>>
  /\ lastResponse = <<>>
  /\ fetches = 0

\* Minimum delay between queued requests and lifetime of a cache entry, in ms.
RATE_LIMIT_DELAY == 1000
CACHE_EXPIRY == 24 * 60 * 60 * 1000

\* The clock when the service is constructed: Date.now() counts from 1970,
\* so it is far more than RATE_LIMIT_DELAY above the initial lastRequestTime.
StartTime == CACHE_EXPIRY

\* The cache with no entry.
EmptyCache == [k \in {} |-> <<>>]

\* The geocoding service as constructed.
InitGeoState ==
  /\ cache = EmptyCache
  /\ requestQueue = <<>>
  /\ isProcessing = FALSE
  /\ lastRequestTime = 0
  /\ now = StartTime
  /\ loops = <<>>
  /\ geoCalls = <<>>
  /\ trace = <<>>
  /\ ticks = 0

\* The callers of the engine.
MaxCallers == 2
Callers == 1 .. MaxCallers

\* A caller with no computation under way.
IdleRun ==
  [pc |-> "idle", p |-> DefaultParams, loc |-> NoLocals, values |-> <<>>,
   rate |-> guess, iter |-> 0, irrRet |-> Fin(0), overlapped |-> FALSE]

InitRuns ==
  /\ runs = [c \in Callers |-> IdleRun]
  /\ done = <<>>

InitServices ==
  /\ InitFetchState
  /\ InitGeoState
  /\ InitRuns

\* Risk flags whose Financing Risk is High from ltv = 80 on.
riskAssessment_HighFrom80(q) ==
  <<[label |-> "Financing Risk",
     level |-> IF q.ltv >= 80 THEN "High"
               ELSE IF q.ltv > 70 THEN "Medium" ELSE "Low"],
    [label |-> "Market Risk", level |-> "Medium"],
    [label |-> "Construction Risk",
     level |-> IF q.constructionCost > 200 * Scale THEN "High"
               ELSE IF q.constructionCost > 100 * Scale THEN "Medium" ELSE "Low"],
    [label |-> "Regulatory Risk", level |-> "Low"]>>

\* The callback of the riskAssessment useMemo, for the parameters q
\* (20,000,000 and 10,000,000 dollars are 200 and 100 money units).
riskAssessment(q) ==
  <<[label |-> "Financing Risk",
     level |-> IF q.ltv > 80 THEN "High"
               ELSE IF q.ltv > 70 THEN "Medium" ELSE "Low"],
    [label |-> "Market Risk", level |-> "Medium"],
    [label |-> "Construction Risk",
     level |-> IF q.constructionCost > 200 * Scale THEN "High"
               ELSE IF q.constructionCost > 100 * Scale THEN "Medium" ELSE "Low"],
    [label |-> "Regulatory Risk", level |-> "Low"]>>

\* The dependency list of the riskAssessment useMemo.
RiskDeps(q) == <<q.ltv, q.constructionCost>>

\* The riskAssessment useMemo in a render with the parameters q: the
\* callback runs when a dependency differs from the one kept.
RiskMemo(q) ==
  IF RiskDeps(q) # riskDeps
  THEN /\ risk' = riskAssessment(q)
       /\ riskDeps' = RiskDeps(q)
  ELSE UNCHANGED riskVars

\* No flags yet: the page has not finished its first render.
InitRisk ==
  /\ risk = <<>>
  /\ riskDeps = <<>>

Init ==
  /\ p \in ParamSet
  /\ pc = "start"
  /\ loc = NoLocals
  /\ values = <<>>
  /\ rate = guess
  /\ iter = 0
  /\ irrRet = Fin(0)
  /\ metrics = NoMetrics
  /\ ui = p
  /\ memoDeps = Deps(p)
  /\ dealName = DefaultDealName
  /\ edits = 0
  /\ calls = <<>>
  /\ InitRisk
  /\ InitServices

\* A computation whose solver keeps the pass count the last run left.
ComputeMetrics_KeepsCount ==
  /\ pc = "start"
  /\ loc' = Locals(p)
  /\ values' = loc'.irrStream
  /\ rate' = guess
  /\ iter' = iter
  /\ pc' = "irr"
  /\ UNCHANGED <<p, irrRet, metrics, pageVars, calls>>
  /\ UNCHANGED <<riskVars, svcVars>>

\* useMemo's callback up to the call calculateIRR(irrStream).
ComputeMetrics ==
  /\ pc = "start"
  /\ loc' = Locals(p)
  /\ values' = loc'.irrStream
  /\ rate' = guess
  /\ iter' = 0
  /\ pc' = "irr"
  /\ UNCHANGED <<p, irrRet, metrics, pageVars, calls>>
  /\ UNCHANGED <<riskVars, svcVars>>

\* A pass that steps the wrong way: rate + npvValue / npvDerivative.
Pass_StepsUphill(r, vals) ==
  LET npvValue == npv(r, vals)
  IN IF BelowPrecision(Abs(npvValue)) THEN [kind |-> "npv", rate |-> r]
     ELSE LET nr == Add(r, Div(npvValue, npvDerivative(r, vals)))
          IN IF BelowPrecision(Abs(Sub(nr, r))) THEN [kind |-> "delta", rate |-> nr]
             ELSE [kind |-> "continue", rate |-> nr]

\* One pass of the loop body of calculateIRR at rate r: what it does ("npv":
\* return rate at the first test; "delta": return newRate at the second;
\* "continue": rate = newRate) and the rate it returns or continues with.
Pass(r, vals) ==
  LET npvValue == npv(r, vals)
  IN IF BelowPrecision(Abs(npvValue)) THEN [kind |-> "npv", rate |-> r]
     ELSE LET nr == Sub(r, Div(npvValue, npvDerivative(r, vals)))
          IN IF BelowPrecision(Abs(Sub(nr, r))) THEN [kind |-> "delta", rate |-> nr]
             ELSE [kind |-> "continue", rate |-> nr]

\* One pass of the loop: return rate, return newRate, or rate = newRate; i++
IRRPass ==
  /\ pc = "irr"
  /\ IterCond(iter)
  /\ LET pass == Pass(rate, values)
     IN IF pass.kind = "continue"
        THEN /\ rate' = pass.rate
             /\ iter' = iter + 1
             /\ UNCHANGED <<pc, irrRet>>
        ELSE /\ irrRet' = pass.rate
             /\ pc' = "irrdone"
             /\ UNCHANGED <<rate, iter>>
  /\ UNCHANGED <<p, loc, values, metrics, pageVars, calls>>
  /\ UNCHANGED <<riskVars, svcVars>>

\* The loop ends at the cap: return rate
IRRCapReturn ==
  /\ pc = "irr"
  /\ ~IterCond(iter)
  /\ irrRet' = rate
  /\ pc' = "irrdone"
  /\ UNCHANGED <<p, loc, values, rate, iter, metrics, pageVars, calls>>
  /\ UNCHANGED <<riskVars, svcVars>>

\* The rest of useMemo's callback: irr, totalReturn and the returned record;
\* the render then goes on to the riskAssessment useMemo.
ReturnMetrics ==
  /\ pc = "irrdone"
  /\ metrics' = [totalProjectCost |-> loc.totalProjectCost,
                 loanAmount |-> loc.loanAmount,
                 equityRequired |-> loc.equityRequired,
                 netOperatingIncome |-> loc.netOperatingIncome,
                 annualDebtService |-> loc.annualDebtService,
                 annualCashFlows |-> loc.annualCashFlows,
                 salePrice |-> loc.salePrice,
                 irr |-> Mul(irrRet, Num(100)),
                 totalReturn |-> totalReturn(loc.irrStream, loc.equityRequired)]
  /\ pc' = "returned"
  /\ calls' = Append(calls, [params |-> p, metrics |-> metrics'])
  /\ RiskMemo(p)
  /\ UNCHANGED <<p, loc, values, rate, iter, irrRet, pageVars, svcVars>>

Next ==
  \/ ComputeMetrics
  \/ IRRPass
  \/ IRRCapReturn
  \/ ReturnMetrics

Spec == Init /\ [][Next]_vars

(***************************************************************************)
(* calculateIRR on its own, as a function of the sequence it is given.     *)
(***************************************************************************)
InitIRR ==
  /\ p = DefaultParams
  /\ pc = "irr"
  /\ loc = NoLocals
  /\ values \in StreamSet
  /\ rate = guess
  /\ iter = 0
  /\ irrRet = Fin(0)
  /\ metrics = NoMetrics
  /\ ui = p
  /\ memoDeps = Deps(p)
  /\ dealName = DefaultDealName
  /\ edits = 0
  /\ calls = <<>>
  /\ InitRisk
  /\ InitServices

NextIRR ==
  \/ IRRPass
  \/ IRRCapReturn

SpecIRR == InitIRR /\ [][NextIRR]_vars

(***************************************************************************)
(* The Underwriting page: the parameters are edited through its fields and *)
(* the metrics are recomputed by useMemo when a dependency has changed.    *)
(***************************************************************************)
MaxEdits == 2

\* What is typed in a field: <<>> for an empty field, <<n>> for the number n
\* (money and rent in 1/Scale of the money unit, rates in 1/Scale of a
\* percent, counts as they are).
TypedSet(f) ==
  CASE f = "totalUnits" -> {<<200>>, <<100>>}
    [] f = "purchasePrice" -> {<<150 * Scale>>, <<100 * Scale>>}
    [] f = "constructionCost" -> {<<250 * Scale>>, <<200 * Scale>>}
    [] f = "closingCosts" -> {<<30 * Scale>>, <<20 * Scale>>}
    [] f = "avgMonthlyRent" -> {<<(12 * Scale) \div 1000>>, <<(20 * Scale) \div 1000>>}
    [] f = "operatingExpenseRatio" -> {<<35 * Scale>>, <<50 * Scale>>}
    [] f = "interestRate" -> {<<(65 * Scale) \div 10>>, <<0>>}
    [] f = "loanTermYears" -> {<<30>>, <<15>>}
    [] f = "ltv" -> {<<75>>, <<50>>}
    [] f = "exitCapRate" -> {<<6 * Scale>>, <<>>}
    [] f = "holdingPeriod" -> {<<10>>, <<>>}

\* Number(e.target.value) || 0
NumberOrZero(typed) == IF typed = <<>> THEN 0 ELSE typed[1]

\* The value an onChange handler sets for what is typed in field f.
OnChange(f, typed) ==
  IF f \in {"operatingExpenseRatio", "interestRate", "exitCapRate"}
  THEN Div(Fin(NumberOrZero(typed)), Num(100)).v
  ELSE NumberOrZero(typed)

\* An edit of parameter field f (or, for avgMonthlyRent, the rent filled in
\* from the market data), and the render it causes: useMemo runs the
\* computation again when a dependency differs from the one it kept.
EditParameter(f, typed) ==
  /\ pc = "returned"
  /\ edits < MaxEdits
  /\ edits' = edits + 1
  /\ ui' = [ui EXCEPT ![f] = OnChange(f, typed)]
  /\ IF Deps(ui') # memoDeps
     THEN /\ memoDeps' = Deps(ui')
          /\ p' = ui'
          /\ pc' = "start"
          /\ UNCHANGED riskVars
     ELSE /\ RiskMemo(ui')
          /\ UNCHANGED <<memoDeps, p, pc>>
  /\ UNCHANGED <<loc, values, rate, iter, irrRet, metrics, dealName, calls>>
  /\ UNCHANGED svcVars

EditSomeParameter ==
  \E f \in DOMAIN DefaultParams : \E typed \in TypedSet(f) : EditParameter(f, typed)

\* An edit of the deal name, and the render it causes: no dependency of the
\* metrics has changed.
EditDealName ==
  /\ pc = "returned"
  /\ edits < MaxEdits
  /\ edits' = edits + 1
  /\ dealName' \in {DefaultDealName, "Edited"} \ {dealName}
  /\ IF Deps(ui) # memoDeps
     THEN /\ memoDeps' = Deps(ui)
          /\ p' = ui
          /\ pc' = "start"
          /\ UNCHANGED riskVars
     ELSE /\ RiskMemo(ui)
          /\ UNCHANGED <<memoDeps, p, pc>>
  /\ UNCHANGED <<loc, values, rate, iter, irrRet, metrics, ui, calls>>
  /\ UNCHANGED svcVars

\* The page from its first render on.
InitPage ==
  /\ p = DefaultParams
  /\ pc = "start"
  /\ loc = NoLocals
  /\ values = <<>>
  /\ rate = guess
  /\ iter = 0
  /\ irrRet = Fin(0)
  /\ metrics = NoMetrics
  /\ ui = DefaultParams
  /\ memoDeps = Deps(DefaultParams)
  /\ dealName = DefaultDealName
  /\ edits = 0
  /\ calls = <<>>
  /\ InitRisk
  /\ InitServices

NextPage ==
  \/ ComputeMetrics
  \/ IRRPass
  \/ IRRCapReturn
  \/ ReturnMetrics
  \/ EditSomeParameter
  \/ EditDealName

SpecPage == InitPage /\ [][NextPage]_vars

(***************************************************************************)
(* The market data of the page: the ZIP code field, the Fetch Data button  *)
(* (fetchMarketData) and the answer of /api/v1/demographics/<zipcode>.     *)
(***************************************************************************)
MaxFetches == 2
MaxFetchEdits == 1

\* What is typed in the ZIP Code field (maxLength 5).
ZipSet == {"95814", "9581"}

\* The median gross rents the provider reports.
MedianRentSet == {(12 * Scale) \div 1000, (15 * Scale) \div 1000}

\* What a fetch for the ZIP code z is answered: the JSON body (success with
\* data, success without data, failure with a message), or
\* "throw" when fetch or response.json() rejects.
ResponseSet(z) ==
  {[kind |-> "json", success |-> TRUE,
    data |-> <<[zipcode |-> z, housing |-> [medianGrossRent |-> r]]>>,
    error |-> <<>>] : r \in MedianRentSet}
  \cup {[kind |-> "json", success |-> TRUE, data |-> <<>>, error |-> <<>>],
        [kind |-> "json", success |-> FALSE, data |-> <<>>,
         error |-> <<"ZIP code not found">>],
        [kind |-> "throw", success |-> FALSE, data |-> <<>>, error |-> <<>>]}

\* onChange={(e) => setZipcode(e.target.value)}, and the render it causes.
EditZipcode(z) ==
  /\ pc = "returned"
  /\ z # zipcode
  /\ zipcode' = z
  /\ RiskMemo(ui)
  /\ UNCHANGED <<demographics, loadingDemographics, demographicsError,
                 request, lastResponse, fetches>>
  /\ UNCHANGED <<engineVars, pageVars, geoVars, concVars>>

\* A click on Fetch Data that sets loadingDemographics before it looks at
\* the ZIP code.
FetchMarketData_LoadsFirst ==
  /\ pc = "returned"
  /\ ~loadingDemographics
  /\ fetches < MaxFetches
  /\ fetches' = fetches + 1
  /\ loadingDemographics' = TRUE
  /\ IF zipcode = "" \/ Len(zipcode) # 5
     THEN /\ demographicsError' = <<"Please enter a valid 5-digit ZIP code">>
          /\ UNCHANGED request
     ELSE /\ demographicsError' = <<>>
          /\ request' = <<zipcode>>
  /\ RiskMemo(ui)
  /\ UNCHANGED <<zipcode, demographics, lastResponse>>
  /\ UNCHANGED <<engineVars, pageVars, geoVars, concVars>>

\* A click on Fetch Data (the button is disabled while loadingDemographics):
\* fetchMarketData up to its first await.
FetchMarketData ==
  /\ pc = "returned"
  /\ ~loadingDemographics
  /\ fetches < MaxFetches
  /\ fetches' = fetches + 1
  /\ IF zipcode = "" \/ Len(zipcode) # 5
     THEN /\ demographicsError' = <<"Please enter a valid 5-digit ZIP code">>
          /\ UNCHANGED <<loadingDemographics, request>>
     ELSE /\ loadingDemographics' = TRUE
          /\ demographicsError' = <<>>
          /\ request' = <<zipcode>>
  /\ RiskMemo(ui)
  /\ UNCHANGED <<zipcode, demographics, lastResponse>>
  /\ UNCHANGED <<engineVars, pageVars, geoVars, concVars>>

\* The answer resp sets the parameters without the rent it reports.
RentFilledIn_NotAtAll(resp) == ui

\* The parameters after setAvgMonthlyRent(result.data.housing.medianGrossRent).
RentFilledIn(resp) ==
  [ui EXCEPT !.avgMonthlyRent = resp.data[1].housing.medianGrossRent]

\* The rest of fetchMarketData when the fetch is answered resp, and the
\* render it causes: useMemo runs the computation again when a dependency
\* differs from the one it kept.
FetchCompletes(resp) ==
  /\ pc = "returned"
  /\ request # <<>>
  /\ request' = <<>>
  /\ lastResponse' = <<resp>>
  /\ loadingDemographics' = FALSE
  /\ IF resp.kind = "throw"
     THEN /\ demographicsError' = <<"Network error: Unable to fetch market data">>
          /\ UNCHANGED <<demographics, ui>>
     ELSE IF resp.success /\ resp.data # <<>>
     THEN /\ demographics' = resp.data
          /\ ui' = RentFilledIn(resp)
          /\ UNCHANGED demographicsError
     ELSE /\ demographicsError' =
               IF resp.error # <<>> THEN resp.error
               ELSE <<"Failed to fetch demographics">>
          /\ UNCHANGED <<demographics, ui>>
  /\ IF Deps(ui') # memoDeps
     THEN /\ memoDeps' = Deps(ui')
          /\ p' = ui'
          /\ pc' = "start"
          /\ UNCHANGED riskVars
     ELSE /\ RiskMemo(ui')
          /\ UNCHANGED <<memoDeps, p, pc>>
  /\ UNCHANGED <<loc, values, rate, iter, irrRet, metrics, calls>>
  /\ UNCHANGED <<dealName, edits, zipcode, fetches, geoVars, concVars>>

EditSomeZipcode == \E z \in ZipSet : EditZipcode(z)

\* An edit of the Total Units field while the market data is used.
EditTotalUnits ==
  /\ edits < MaxFetchEdits
  /\ \E typed \in TypedSet("totalUnits") : EditParameter("totalUnits", typed)

SomeFetchCompletes ==
  /\ request # <<>>
  /\ \E resp \in ResponseSet(request[1]) : FetchCompletes(resp)

NextFetch ==
  \/ ComputeMetrics
  \/ IRRPass
  \/ IRRCapReturn
  \/ ReturnMetrics
  \/ EditSomeZipcode
  \/ EditTotalUnits
  \/ FetchMarketData
  \/ SomeFetchCompletes

SpecFetch == InitPage /\ [][NextFetch]_vars

(***************************************************************************)
(* GeocodingService: a cache in front of a queue of requests that one     *)
(* processQueue loop sends one at a time, RATE_LIMIT_DELAY apart.  Every   *)
(* action is what runs between two awaits: JavaScript runs it as a whole.  *)
(***************************************************************************)
MaxCalls == 3
MaxLiveCalls == 2
MaxTicks == 2

\* By how much the clock moves in one step.
AdvanceSet == {RATE_LIMIT_DELAY \div 2, CACHE_EXPIRY}

\* The addresses, ZIP codes (as their characters) and coordinates asked.
AddressSet == {"", "Main St", "main st"}
ZipcodeSet == {<<"9", "5", "8", "1", "4">>, <<"9", "5", "8", "1", "a">>}
CoordSet == {<<38, -121>>, <<0, -121>>}
BatchSet == {<<"Main St", "", "main st", "Main St">>}

\* address.toLowerCase()
ToLowerCase(a) == IF a = "Main St" THEN "main st" ELSE a

\* !address || address.trim() === ''
IsBlank(a) == a \in {"", " "}

\* lat.toFixed(6), for the whole numbers of CoordSet.
ToFixed6(n) ==
  CASE n = 38 -> "38.000000"
    [] n = -121 -> "-121.000000"
    [] n = 0 -> "0.000000"

\* /^\d{5}$/.test(zipcode)
DigitChars == {"0", "1", "2", "3", "4", "5", "6", "7", "8", "9"}
IsFiveDigits(z) == Len(z) = 5 /\ \A i \in 1 .. Len(z) : z[i] \in DigitChars

\* The fields of the service, with its calls and its trace, as one record.
Service ==
  [cache |-> cache, requestQueue |-> requestQueue, isProcessing |-> isProcessing,
   lastRequestTime |-> lastRequestTime, loops |-> loops, geoCalls |-> geoCalls,
   trace |-> trace]

\* The service becomes G.
Becomes(G) ==
  /\ cache' = G.cache
  /\ requestQueue' = G.requestQueue
  /\ isProcessing' = G.isProcessing
  /\ lastRequestTime' = G.lastRequestTime
  /\ loops' = G.loops
  /\ geoCalls' = G.geoCalls
  /\ trace' = G.trace

\* The sequence s without its element i.
Without(s, i) == SubSeq(s, 1, i - 1) \o SubSeq(s, i + 1, Len(s))

\* The function f without the argument k.
Remove(f, k) == [x \in DOMAIN f \ {k} |-> f[x]]

\* The function f with f[k] = v.
Put(f, k, v) == [x \in DOMAIN f \cup {k} |-> IF x = k THEN v ELSE f[x]]

\* The loop at position i of G.loops is suspended as rec (a new loop when
\* i = Len(G.loops) + 1).
Suspend(G, i, rec) ==
  [G EXCEPT !.loops = IF i > Len(G.loops) THEN Append(G.loops, rec)
                      ELSE [G.loops EXCEPT ![i] = rec]]

\* The loop at position i has returned.
Finish(G, i) ==
  [G EXCEPT !.loops = IF i > Len(G.loops) THEN G.loops ELSE Without(G.loops, i)]

\* A loop that takes the request enqueued last.
Shift_TakesLast(G, t, i) ==
  IF G.requestQueue = <<>> THEN G
  ELSE LET id == G.requestQueue[Len(G.requestQueue)]
       IN Suspend([G EXCEPT !.requestQueue = SubSeq(G.requestQueue, 1, Len(G.requestQueue) - 1),
                            !.trace = Append(G.trace, [ev |-> "start", id |-> id, t |-> t])],
                  i, [at |-> "request", wakeAt |-> 0, req |-> id])

\* const request = this.requestQueue.shift(); if (request) await request():
\* the request starts (its fetch is sent) and loop i waits for it.
Shift(G, t, i) ==
  IF G.requestQueue = <<>> THEN G
  ELSE LET id == Head(G.requestQueue)
       IN Suspend([G EXCEPT !.requestQueue = Tail(G.requestQueue),
                            !.trace = Append(G.trace, [ev |-> "start", id |-> id, t |-> t])],
                  i, [at |-> "request", wakeAt |-> 0, req |-> id])

\* A loop head that sends the next request without looking at the clock.
LoopHead_NoDelay(G, t, i) ==
  IF G.requestQueue = <<>>
  THEN [Finish(G, i) EXCEPT !.isProcessing = FALSE]
  ELSE Shift(G, t, i)

\* A loop head that returns without clearing isProcessing.
LoopHead_StaysProcessing(G, t, i) ==
  IF G.requestQueue = <<>>
  THEN Finish(G, i)
  ELSE LET timeSinceLastRequest == t - G.lastRequestTime
       IN IF timeSinceLastRequest < RATE_LIMIT_DELAY
          THEN Suspend(G, i, [at |-> "delay",
                              wakeAt |-> t + (RATE_LIMIT_DELAY - timeSinceLastRequest),
                              req |-> 0])
          ELSE Shift(G, t, i)

\* The head of the while loop of processQueue at time t, for loop i: the
\* loop ends (isProcessing = false) when the queue is empty, waits when the
\* last request ended less than RATE_LIMIT_DELAY ago, and sends the next
\* request otherwise.
LoopHead(G, t, i) ==
  IF G.requestQueue = <<>>
  THEN [Finish(G, i) EXCEPT !.isProcessing = FALSE]
  ELSE LET timeSinceLastRequest == t - G.lastRequestTime
       IN IF timeSinceLastRequest < RATE_LIMIT_DELAY
          THEN Suspend(G, i, [at |-> "delay",
                              wakeAt |-> t + (RATE_LIMIT_DELAY - timeSinceLastRequest),
                              req |-> 0])
          ELSE Shift(G, t, i)

\* processQueue() up to its first await.
processQueue(G, t) ==
  IF G.isProcessing \/ G.requestQueue = <<>> THEN G
  ELSE LoopHead([G EXCEPT !.isProcessing = TRUE], t, Len(G.loops) + 1)

\* An entry that expires when it is CACHE_EXPIRY old.
Expired_AtExpiry(t, timestamp) == t - timestamp >= CACHE_EXPIRY

\* Date.now() - cached.timestamp > CACHE_EXPIRY
Expired(t, timestamp) == t - timestamp > CACHE_EXPIRY

\* getCached(key) at time t: the service afterwards (an expired entry is
\* deleted) and what is returned (<<>> is null).
getCached(G, key, t) ==
  IF key \notin DOMAIN G.cache THEN [G |-> G, result |-> <<>>]
  ELSE IF Expired(t, G.cache[key].timestamp)
  THEN [G |-> [G EXCEPT !.cache = Remove(G.cache, key)], result |-> <<>>]
  ELSE [G |-> G, result |-> <<G.cache[key].result>>]

\* setCached(key, result) at time t.
setCached(G, key, result, t) ==
  [G EXCEPT !.cache = Put(G.cache, key, [result |-> result, timestamp |-> t])]

\* A call of the service that has returned value at once (<<>> is null).
Returned(fn, arg, key, value) ==
  [fn |-> fn, arg |-> arg, key |-> key, promise |-> "none",
   returned |-> TRUE, value |-> value]

\* A call of the service that waits for its queued request.
Waiting(fn, arg, key) ==
  [fn |-> fn, arg |-> arg, key |-> key, promise |-> "pending",
   returned |-> FALSE, value |-> <<>>]

\* queueRequest(request) at time t, for the call that is added as call: the
\* request is pushed and processQueue() is called.
queueRequest(G, call, t) ==
  LET id == Len(G.geoCalls) + 1
  IN processQueue([G EXCEPT !.geoCalls = Append(G.geoCalls, call),
                            !.requestQueue = Append(G.requestQueue, id),
                            !.trace = Append(G.trace, [ev |-> "enqueue", id |-> id, t |-> t])],
                  t)

\* A call that looks key up and asks the network on a miss.
Lookup(G, fn, arg, key, t) ==
  LET got == getCached(G, key, t)
  IN IF got.result # <<>>
     THEN [got.G EXCEPT !.geoCalls =
             Append(got.G.geoCalls,
                    Returned(fn, arg, key,
                             IF fn = "reverseGeocode" THEN <<got.result[1].displayName>>
                             ELSE got.result))]
     ELSE queueRequest(got.G, Waiting(fn, arg, key), t)

\* A call added to G that returns null for what it is given.
ReturnsNull(G, fn, arg) ==
  [G EXCEPT !.geoCalls = Append(G.geoCalls, Returned(fn, arg, <<>>, <<>>))]

\* geocodeAddress(address) up to its first await.
geocodeAddress(G, address, t) ==
  IF IsBlank(address) THEN ReturnsNull(G, "geocodeAddress", address)
  ELSE Lookup(G, "geocodeAddress", address, <<"address", ToLowerCase(address)>>, t)

\* geocodeZipcode(zipcode) up to its first await.
geocodeZipcode(G, z, t) ==
  IF z = <<>> \/ ~IsFiveDigits(z) THEN ReturnsNull(G, "geocodeZipcode", z)
  ELSE Lookup(G, "geocodeZipcode", z, <<"zipcode">> \o z, t)

\* reverseGeocode(lat, lng) up to its first await.
reverseGeocode(G, c, t) ==
  IF c[1] = 0 \/ c[2] = 0 THEN ReturnsNull(G, "reverseGeocode", c)
  ELSE Lookup(G, "reverseGeocode", c, <<"reverse", ToFixed6(c[1]), ToFixed6(c[2])>>, t)

\* The addresses batchGeocode asks: those of the list that are not blank,
\* each once, in the order of their first place.
UniqueAddresses(list) ==
  LET NonBlank == SelectSeq(list, LAMBDA a : ~IsBlank(a))
      FirstAt(i) == \A j \in 1 .. i - 1 : NonBlank[j] # NonBlank[i]
      RECURSIVE From(_)
      From(i) == IF i > Len(NonBlank) THEN <<>>
                 ELSE IF FirstAt(i) THEN <<NonBlank[i]>> \o From(i + 1)
                 ELSE From(i + 1)
  IN From(1)

\* batchGeocode(addresses) up to its await: geocodeAddress is called for
\* each of the addresses in turn.
RECURSIVE batchGeocodeFrom(_, _, _, _)
batchGeocodeFrom(G, list, i, t) ==
  IF i > Len(list) THEN G
  ELSE batchGeocodeFrom(geocodeAddress(G, list[i], t), list, i + 1, t)

batchGeocode(G, addresses, t) == batchGeocodeFrom(G, UniqueAddresses(addresses), 1, t)

\* What the network answers a request of the call fn: makeRequest gives a
\* result or null (it catches every failure); the request of reverseGeocode
\* gives the JSON body, with a display name or with an error, or throws.
OutcomeSet(fn) ==
  IF fn = "reverseGeocode" THEN {"found", "error", "throw"} ELSE {"found", "null"}

\* The result the network gives for key.
ResultFor(key) == [lat |-> 38, lng |-> -121, displayName |-> key]

\* A call of geocodeAddress.
GeocodeAddress(address) ==
  /\ Len(geoCalls) < MaxCalls
  /\ Becomes(geocodeAddress(Service, address, now))
  /\ UNCHANGED <<now, ticks>>
  /\ UNCHANGED <<engineVars, pageVars, riskVars, fetchVars, concVars>>

\* A call of geocodeZipcode.
GeocodeZipcode(z) ==
  /\ Len(geoCalls) < MaxCalls
  /\ Becomes(geocodeZipcode(Service, z, now))
  /\ UNCHANGED <<now, ticks>>
  /\ UNCHANGED <<engineVars, pageVars, riskVars, fetchVars, concVars>>

\* A call of reverseGeocode.
ReverseGeocode(c) ==
  /\ Len(geoCalls) < MaxCalls
  /\ Becomes(reverseGeocode(Service, c, now))
  /\ UNCHANGED <<now, ticks>>
  /\ UNCHANGED <<engineVars, pageVars, riskVars, fetchVars, concVars>>

\* A call of batchGeocode.
BatchGeocode(addresses) ==
  /\ Len(geoCalls) + Len(UniqueAddresses(addresses)) <= MaxCalls
  /\ Becomes(batchGeocode(Service, addresses, now))
  /\ UNCHANGED <<now, ticks>>
  /\ UNCHANGED <<engineVars, pageVars, riskVars, fetchVars, concVars>>

\* The timer of loop i fires: the loop goes on after its await of the delay.
TimerFires(i) ==
  /\ loops[i].at = "delay"
  /\ now >= loops[i].wakeAt
  /\ Becomes(IF requestQueue = <<>> THEN LoopHead(Service, now, i)
             ELSE Shift(Service, now, i))
  /\ UNCHANGED <<now, ticks>>
  /\ UNCHANGED <<engineVars, pageVars, riskVars, fetchVars, concVars>>

\* The call after its queued request has ended with outcome.
Settled(call, outcome) ==
  [call EXCEPT !.promise = IF outcome = "throw" THEN "rejected" ELSE "resolved",
               !.returned = TRUE,
               !.value = IF outcome # "found" THEN <<>>
                         ELSE IF call.fn = "reverseGeocode"
                         THEN <<ResultFor(call.key).displayName>>
                         ELSE <<ResultFor(call.key)>>]

\* The request that loop i waits for ends with outcome: the wrapper of
\* queueRequest resolves or rejects the promise of the call, the call stores
\* a result it got, and the loop sets lastRequestTime and goes to its head.
RequestEnds(i, outcome) ==
  /\ loops[i].at = "request"
  /\ LET id == loops[i].req
         call == geoCalls[id]
         G1 == [Service EXCEPT !.geoCalls[id] = Settled(call, outcome)]
         G2 == IF outcome = "found"
               THEN setCached(G1, call.key, ResultFor(call.key), now)
               ELSE G1
         G3 == [G2 EXCEPT !.lastRequestTime = now,
                          !.trace = Append(G2.trace, [ev |-> "end", id |-> id, t |-> now])]
     IN /\ outcome \in OutcomeSet(call.fn)
        /\ Becomes(LoopHead(G3, now, i))
  /\ UNCHANGED <<now, ticks>>
  /\ UNCHANGED <<engineVars, pageVars, riskVars, fetchVars, concVars>>

\* The times at which a timer that has not fired is due.
DueTimes == {loops[i].wakeAt : i \in {j \in DOMAIN loops : loops[j].at = "delay"}}

\* The clock moves by d: by one of the steps of AdvanceSet, or up to a timer
\* that is due.
Tick(d) ==
  /\ d > 0
  /\ \/ ticks < MaxTicks /\ d \in AdvanceSet /\ ticks' = ticks + 1
     \/ now + d \in DueTimes /\ ticks' = ticks
  /\ now' = now + d
  /\ UNCHANGED <<cache, requestQueue, isProcessing, lastRequestTime, loops,
                 geoCalls, trace>>
  /\ UNCHANGED <<engineVars, pageVars, riskVars, fetchVars, concVars>>

SomeGeocodeAddress == \E a \in AddressSet : GeocodeAddress(a)
SomeGeocodeZipcode == \E z \in ZipcodeSet : GeocodeZipcode(z)
SomeReverseGeocode == \E c \in CoordSet : ReverseGeocode(c)
SomeBatchGeocode == \E list \in BatchSet : BatchGeocode(list)
SomeTimerFires == \E i \in DOMAIN loops : TimerFires(i)
SomeRequestEnds == \E i \in DOMAIN loops : \E o \in {"found", "null", "error", "throw"} : RequestEnds(i, o)
SomeTick == \E d \in AdvanceSet \cup {t - now : t \in DueTimes} : Tick(d)

SomeCall ==
  \/ SomeGeocodeAddress
  \/ SomeGeocodeZipcode
  \/ SomeReverseGeocode
  \/ SomeBatchGeocode

NextGeo ==
  \/ SomeCall
  \/ SomeTimerFires
  \/ SomeRequestEnds
  \/ SomeTick

SpecGeo == InitPage /\ [][NextGeo]_vars

\* The service with the scheduling of its environment: a timer that is due
\* fires, a request that was sent ends (each network call completes), and
\* the clock moves on to the timers that are due.  At most MaxLiveCalls calls
\* are made.
LiveCall == SomeCall /\ Len(geoCalls') <= MaxLiveCalls

NextGeoLive ==
  \/ LiveCall
  \/ SomeTimerFires
  \/ SomeRequestEnds
  \/ SomeTick

FairSpecGeo ==
  /\ InitPage /\ [][NextGeoLive]_vars
  /\ WF_vars(SomeTimerFires)
  /\ WF_vars(SomeRequestEnds)
  /\ WF_vars(SomeTick)

(***************************************************************************)
(* The computation called by several callers at once: each call has its   *)
(* own parameters and its own locals (runs[c]), and the steps of the calls *)
(* are taken in any order.                                                 *)
(***************************************************************************)
MaxRuns == 3

\* The parameters the callers give: deals whose IRR is found in few passes.
ConcParamSet ==
  {q \in ValidSet : /\ q.totalUnits = 300 /\ q.ltv = 75
                    /\ q.interestRate = (65 * Scale) \div 1000
                    /\ q.holdingPeriod <= 2}

\* The calls under way.
Busy == {c \in Callers : runs[c].pc # "idle"}

\* Caller c calls the computation with the parameters q.
StartRun(c, q) ==
  /\ runs[c].pc = "idle"
  /\ Len(done) + Cardinality(Busy) < MaxRuns
  /\ runs' = [d \in Callers |->
                IF d = c
                THEN [IdleRun EXCEPT !.pc = "start", !.p = q,
                                     !.overlapped = Busy # {}]
                ELSE IF d \in Busy THEN [runs[d] EXCEPT !.overlapped = TRUE]
                ELSE runs[d]]
  /\ UNCHANGED done
  /\ UNCHANGED <<engineVars, pageVars, riskVars, fetchVars, geoVars>>

\* A callback whose irrStream is one array that all calls under way share.
RunCompute_SharedArrays(c) ==
  /\ runs[c].pc = "start"
  /\ LET l == Locals(runs[c].p)
     IN runs' = [d \in Callers |->
                   IF d = c
                   THEN [runs[c] EXCEPT !.loc = l, !.values = l.irrStream,
                                        !.rate = guess, !.iter = 0, !.pc = "irr"]
                   ELSE IF runs[d].pc = "irr"
                   THEN [runs[d] EXCEPT !.values = l.irrStream]
                   ELSE runs[d]]
  /\ UNCHANGED done
  /\ UNCHANGED <<engineVars, pageVars, riskVars, fetchVars, geoVars>>

\* useMemo's callback up to the call calculateIRR(irrStream), in the call
\* of c: its arrays are created in the call.
RunCompute(c) ==
  /\ runs[c].pc = "start"
  /\ LET l == Locals(runs[c].p)
     IN runs' = [runs EXCEPT ![c] =
                   [runs[c] EXCEPT !.loc = l, !.values = l.irrStream,
                                   !.rate = guess, !.iter = 0, !.pc = "irr"]]
  /\ UNCHANGED done
  /\ UNCHANGED <<engineVars, pageVars, riskVars, fetchVars, geoVars>>

\* A step of calculateIRR in the call of c: one pass of its loop (return
\* rate, return newRate, or rate = newRate; i++), or the return at the cap.
RunIRR(c) ==
  /\ runs[c].pc = "irr"
  /\ LET pass == Pass(runs[c].rate, runs[c].values)
     IN runs' = [runs EXCEPT ![c] =
                   IF ~IterCond(runs[c].iter)
                   THEN [runs[c] EXCEPT !.irrRet = runs[c].rate, !.pc = "irrdone"]
                   ELSE IF pass.kind = "continue"
                   THEN [runs[c] EXCEPT !.rate = pass.rate, !.iter = runs[c].iter + 1]
                   ELSE [runs[c] EXCEPT !.irrRet = pass.rate, !.pc = "irrdone"]]
  /\ UNCHANGED done
  /\ UNCHANGED <<engineVars, pageVars, riskVars, fetchVars, geoVars>>

\* The rest of the callback in the call of c: the record is returned.
RunReturn(c) ==
  /\ runs[c].pc = "irrdone"
  /\ LET r == runs[c]
     IN done' = Append(done,
                  [caller |-> c, params |-> r.p, overlapped |-> r.overlapped,
                   metrics |->
                     [totalProjectCost |-> r.loc.totalProjectCost,
                      loanAmount |-> r.loc.loanAmount,
                      equityRequired |-> r.loc.equityRequired,
                      netOperatingIncome |-> r.loc.netOperatingIncome,
                      annualDebtService |-> r.loc.annualDebtService,
                      annualCashFlows |-> r.loc.annualCashFlows,
                      salePrice |-> r.loc.salePrice,
                      irr |-> Mul(r.irrRet, Num(100)),
                      totalReturn |-> totalReturn(r.loc.irrStream, r.loc.equityRequired)]])
  /\ runs' = [runs EXCEPT ![c] = IdleRun]
  /\ UNCHANGED <<engineVars, pageVars, riskVars, fetchVars, geoVars>>

SomeStartRun == \E c \in Callers : \E q \in ConcParamSet : StartRun(c, q)
SomeRunCompute == \E c \in Callers : RunCompute(c)
SomeRunIRR == \E c \in Callers : RunIRR(c)
SomeRunReturn == \E c \in Callers : RunReturn(c)

NextConc ==
  \/ SomeStartRun
  \/ SomeRunCompute
  \/ SomeRunIRR
  \/ SomeRunReturn

SpecConc == InitPage /\ [][NextConc]_vars

(***************************************************************************)
(* The risk flags on their own, as a function of the parameters: the ltv   *)
(* slider runs from 50 to 90, the construction cost is typed.              *)
(***************************************************************************)
RiskLtvSet == 50 .. 90

RiskCostSet ==
  {0, 100 * Scale, 100 * Scale + 1, 200 * Scale, 200 * Scale + 1, 250 * Scale}

RiskParamSet ==
  {[DefaultParams EXCEPT !.ltv = l, !.constructionCost = c, !.totalUnits = u] :
     l \in RiskLtvSet, c \in RiskCostSet, u \in UnitsSet}

InitRiskFlags ==
  /\ p \in RiskParamSet
  /\ pc = "start"
  /\ loc = NoLocals
  /\ values = <<>>
  /\ rate = guess
  /\ iter = 0
  /\ irrRet = Fin(0)
  /\ metrics = NoMetrics
  /\ ui = p
  /\ memoDeps = Deps(p)
  /\ dealName = DefaultDealName
  /\ edits = 0
  /\ calls = <<>>
  /\ InitRisk
  /\ InitServices

\* The riskAssessment useMemo of a render.
RenderRiskAssessment ==
  /\ RiskMemo(ui)
  /\ UNCHANGED <<engineVars, pageVars, svcVars>>

NextRisk == RenderRiskAssessment

SpecRisk == InitRiskFlags /\ [][NextRisk]_vars

(***************************************************************************)
(* The properties.  The quantities they name are written here from their   *)
(* statement, apart from the loop that computes them above.                *)
(***************************************************************************)

\* The projected NOI of year y >= 1: the year-1 NOI grown by 2% a year.
RECURSIVE NOIOfYear(_, _)
NOIOfYear(q, y) ==
  IF y <= 1 THEN netOperatingIncome(q)
  ELSE Mul(NOIOfYear(q, y - 1), Dec(102, 100))

\* The operating cash flow of year y: projected NOI less the debt service.
OperatingCashFlow(q, y) == Sub(NOIOfYear(q, y), annualDebtService(q))

\* The sum of the operating cash flows of years 1 .. n.
RECURSIVE OperatingTotal(_, _)
OperatingTotal(q, n) ==
  IF n <= 0 THEN Fin(0)
  ELSE Add(OperatingTotal(q, n - 1), OperatingCashFlow(q, n))

\* The sum of the elements of a sequence of numbers.
RECURSIVE SeqSum(_)
SeqSum(s) == IF s = <<>> THEN Fin(0) ELSE Add(s[1], SeqSum(Tail(s)))

\* A number that is neither NaN nor an infinity.
Finite(x) == x.k = "fin"

\* The invariant the specification's data model states of the parameters.
ValidParams(q) ==
  /\ q.purchasePrice >= 0 /\ q.constructionCost >= 0 /\ q.closingCosts >= 0
  /\ q.totalUnits >= 0 /\ q.avgMonthlyRent >= 0
  /\ q.ltv > 0 /\ q.ltv <= 100
  /\ q.exitCapRate > 0 /\ q.loanTermYears > 0 /\ q.holdingPeriod > 0

\* The metrics record has been returned for parameters that satisfy the
\* data model's invariant.
ReturnedValid == pc = "returned" /\ ValidParams(p)

\* C1: with exitCapRate = 0 the computation is rejected with
\* InvalidParameterError before it computes anything: it never leaves its
\* start, so no metrics record (in particular none holding NaN or Infinity in
\* salePrice, irr or totalReturn) reaches the caller.
C1_ExitCapZeroRejected ==
  p.exitCapRate = 0 =>
    /\ pc = "start"
    /\ Finite(loc.salePrice)
    /\ Finite(metrics.salePrice) /\ Finite(metrics.irr) /\ Finite(metrics.totalReturn)

\* C2 as claimed: for valid inputs the sum of the returned annualCashFlows is
\* the sum of the operating cash flows of years 1 .. holdingPeriod plus
\* saleProceeds, counted once.
C2_SaleProceedsInAnnualCashFlows ==
  ReturnedValid =>
    SeqSum(metrics.annualCashFlows)
      = Add(OperatingTotal(p, p.holdingPeriod), loc.saleProceeds)

\* C2 as amended: for valid inputs the returned annualCashFlows sums to the
\* operating cash flows alone, saleProceeds not being part of it; saleProceeds
\* is added exactly once, to the last element of the separate stream given to
\* the IRR solver, whose elements after the first otherwise equal
\* annualCashFlows.
C2_SaleProceedsOnlyInIrrStream ==
  ReturnedValid =>
    LET n == p.holdingPeriod
        acf == metrics.annualCashFlows
    IN /\ SeqSum(acf) = OperatingTotal(p, n)
       /\ \A i \in 1 .. n - 1 : loc.irrStream[i + 1] = acf[i]
       /\ loc.irrStream[n + 1] = Add(acf[n], loc.saleProceeds)

\* C2's case: metrics returned for a valid hold of several years whose sale
\* proceeds are not zero.
C2_Witness ==
  /\ ReturnedValid
  /\ p.holdingPeriod >= 2
  /\ Finite(loc.saleProceeds) /\ loc.saleProceeds.v # 0

\* C3 as claimed: for valid inputs the equity multiple is
\* (S + equityRequired) / equityRequired, S being the sum of the cash flows of
\* years 1 .. N (sale proceeds included, the year-0 outlay excluded).
C3_MultipleAddsEquityToDistributions ==
  ReturnedValid =>
    metrics.totalReturn
      = Div(Add(SeqSum(Tail(loc.irrStream)), metrics.equityRequired),
            metrics.equityRequired)

\* C3 as amended: for valid inputs the equity multiple is
\* (T + equityRequired) / equityRequired, T being the sum of the whole stream
\* given to the IRR solver, the year-0 outlay -equityRequired included: the
\* distributions of years 1 .. N over the equity, not one more than that.
C3_MultipleOverWholeStream ==
  ReturnedValid =>
    metrics.totalReturn
      = Div(Add(Add(Neg(metrics.equityRequired), SeqSum(Tail(loc.irrStream))),
                metrics.equityRequired),
            metrics.equityRequired)

\* C3's case: metrics returned for valid inputs with equity at stake and a
\* finite multiple.
C3_Witness ==
  /\ ReturnedValid
  /\ Finite(metrics.equityRequired) /\ metrics.equityRequired.v > 0
  /\ Finite(metrics.totalReturn) /\ metrics.totalReturn.v # 0

\* The Newton-Raphson iteration as stated: NPV(r) is the sum over t >= 0 of
\* C[t] / (1+r)^t ...
RECURSIVE StatedNPV(_, _, _)
StatedNPV(r, c, n) ==
  IF n < 0 THEN Fin(0)
  ELSE Add(StatedNPV(r, c, n - 1), Div(c[n + 1], Pow(Add(Num(1), r), n)))

\* ... its derivative the sum over t >= 1 of -t * C[t] / (1+r)^(t+1) ...
RECURSIVE StatedDerivative(_, _, _)
StatedDerivative(r, c, n) ==
  IF n < 1 THEN Fin(0)
  ELSE Add(StatedDerivative(r, c, n - 1),
           Neg(Div(Mul(Num(n), c[n + 1]), Pow(Add(Num(1), r), n + 1))))

\* ... and the update r - NPV(r) / NPV'(r).
StatedUpdate(r, c) ==
  Sub(r, Div(StatedNPV(r, c, Len(c) - 1), StatedDerivative(r, c, Len(c) - 1)))

\* |x| < 1e-5
Within1e5(x) == Finite(x) /\ AbsInt(x.v) < Scale /\ AbsInt(x.v) * 100000 < Scale

\* |x| < 1e-3
Within1e3(x) == Finite(x) /\ AbsInt(x.v) < Scale /\ AbsInt(x.v) * 1000 < Scale

\* C4: whenever a pass of the solver finds the derivative of NPV to be
\* exactly zero (the first test not having returned), it returns the
\* current rate instead of dividing by it, and what the solver returns is
\* never NaN or an infinity.
C4_ZeroDerivativeReturnsCurrentRate ==
  /\ [](pc = "irrdone" => Finite(irrRet))
  /\ [][(/\ pc = "irr"
         /\ iter < 1000
         /\ ~Within1e5(Abs(StatedNPV(rate, values, Len(values) - 1)))
         /\ IsZero(npvDerivative(rate, values)))
        => (pc' = "irrdone" /\ irrRet' = rate)]_vars

\* C5: with holdingPeriod <= 0, loanTermYears <= 0 or totalUnits < 0 the
\* computation is rejected with InvalidParameterError before it computes
\* anything: it never leaves its start; in particular with holdingPeriod = 0
\* no stream is built whose year-0 element is the equity outlay plus the sale
\* proceeds.
C5_NonPositiveTermsRejected ==
  (p.holdingPeriod <= 0 \/ p.loanTermYears <= 0 \/ p.totalUnits < 0) =>
    /\ pc = "start"
    /\ (p.holdingPeriod = 0 /\ values # <<>>
          => values[1] = Neg(equityRequired(p)))

\* C6: calculateIRR makes at most 1000 passes of its loop: each pass that
\* does not return counts one, none begins once 1000 are counted, and at the
\* cap it returns the last rate computed instead of failing.
C6_IterationCap ==
  /\ [](iter <= 1000)
  /\ [][pc = "irr" =>
          \/ pc' = "irr" /\ iter < 1000 /\ iter' = iter + 1
          \/ pc' = "irrdone" /\ (iter = 1000 => irrRet' = rate)]_vars
  /\ [](pc = "irr" /\ iter = 1000 => ENABLED IRRCapReturn)

\* C6's case: the solver has returned at the cap.
C6_Witness == pc = "irrdone" /\ iter = 1000

\* C7: the solver starts at r_0 = 0.10; a pass at r_k returns r_k if
\* |NPV(r_k)| < 1e-5, else computes r_(k+1) = r_k - NPV(r_k)/NPV'(r_k) and
\* returns it if |r_(k+1) - r_k| < 1e-5, else goes on with r_(k+1); it
\* returns only at one of the two tests or at the cap of 1000 passes.
C7_NewtonIteration ==
  /\ [](pc = "irr" /\ iter = 0 => rate = Dec(10, 100))
  /\ [][(pc = "irr" /\ iter < 1000) =>
          LET f == StatedNPV(rate, values, Len(values) - 1)
              next == StatedUpdate(rate, values)
          IN IF Within1e5(Abs(f))
             THEN pc' = "irrdone" /\ irrRet' = rate
             ELSE IF Within1e5(Abs(Sub(next, rate)))
             THEN pc' = "irrdone" /\ irrRet' = next
             ELSE pc' = "irr" /\ rate' = next /\ iter' = iter + 1]_vars
  /\ [][(pc = "irr" /\ pc' = "irrdone") =>
          \/ Within1e5(Abs(StatedNPV(irrRet', values, Len(values) - 1)))
          \/ Within1e5(Abs(Sub(irrRet', rate)))
          \/ iter = 1000]_vars

\* C7's case: the solver has returned at the second test after several
\* passes, at a rate where the first test fails.
C7_Witness ==
  /\ pc = "irrdone"
  /\ iter > 0 /\ iter < 1000
  /\ Finite(irrRet)
  /\ ~Within1e5(Abs(StatedNPV(irrRet, values, Len(values) - 1)))

\* C8: for valid inputs the NPV of the stream given to the solver,
\* discounted at the returned irr / 100, is within 1e-3 of zero.
C8_IrrIsRoot ==
  ReturnedValid =>
    Within1e3(Abs(StatedNPV(Div(metrics.irr, Num(100)), loc.irrStream,
                            Len(loc.irrStream) - 1)))

\* C9: for valid inputs with holdingPeriod = N >= 1 the stream given to the
\* solver has N + 1 elements: -equityRequired, then the operating cash flows
\* of years 1 .. N - 1, then the year-N operating cash flow plus saleProceeds
\* (added once).
C9_IrrStreamShape ==
  (pc # "start" /\ ValidParams(p)) =>
    LET n == p.holdingPeriod
    IN /\ Len(values) = n + 1
       /\ values[1] = Neg(Sub(totalProjectCost(p), loanAmount(p)))
       /\ \A y \in 1 .. n - 1 : values[y + 1] = OperatingCashFlow(p, y)
       /\ values[n + 1] = Add(OperatingCashFlow(p, n), loc.saleProceeds)

\* C9's case: the solver runs on the stream of a valid three-year hold whose
\* sale proceeds are not zero.
C9_Witness ==
  /\ pc = "irr"
  /\ ValidParams(p)
  /\ p.holdingPeriod = 3
  /\ Finite(loc.saleProceeds) /\ loc.saleProceeds.v # 0

\* C10: for valid inputs the returned annualCashFlows has exactly
\* holdingPeriod entries, in order of time: entry i (from 0) is the
\* operating cash flow of year i + 1.
C10_AnnualCashFlowsLength ==
  ReturnedValid =>
    /\ Len(metrics.annualCashFlows) = p.holdingPeriod
    /\ \A y \in 1 .. Len(metrics.annualCashFlows) :
         metrics.annualCashFlows[y] = OperatingCashFlow(p, y)

\* C10's case: metrics returned for a valid hold of three years whose yearly
\* cash flows differ.
C10_Witness ==
  /\ ReturnedValid
  /\ p.holdingPeriod = 3
  /\ metrics.annualCashFlows[1] # metrics.annualCashFlows[3]

\* C11: for every year y of the hold the operating cash flow is the year-1
\* NOI compounded at 2% once a year from year 2, less the same annual debt
\* service: year 1 is NOI - ADS, and each later year's cash flow plus ADS is
\* 1.02 times the year before's cash flow plus ADS.
C11_CashFlowCompounding ==
  ReturnedValid =>
    LET acf == metrics.annualCashFlows
        ads == metrics.annualDebtService
    IN /\ acf[1] = Sub(metrics.netOperatingIncome, ads)
       /\ \A y \in 2 .. p.holdingPeriod :
            /\ Add(acf[y], ads) = Mul(Add(acf[y - 1], ads), Dec(102, 100))
            /\ acf[y] = Sub(NOIOfYear(p, y), ads)

\* C11's case: metrics returned for a valid hold of at least two years with
\* a positive NOI, so that the second year's cash flow has grown.
C11_Witness ==
  /\ ReturnedValid
  /\ p.holdingPeriod >= 2
  /\ Finite(metrics.netOperatingIncome) /\ metrics.netOperatingIncome.v > 0
  /\ metrics.annualCashFlows[2] # metrics.annualCashFlows[1]

\* C12: for valid inputs the sale price is the final hold year's NOI grown
\* once more by 2% and divided by exitCapRate, and the sale proceeds are the
\* sale price less the original loan principal, with no paydown subtracted.
C12_ExitValuation ==
  (pc # "start" /\ ValidParams(p)) =>
    LET exitNOI == Mul(NOIOfYear(p, p.holdingPeriod), Dec(102, 100))
    IN /\ loc.salePrice = Div(exitNOI, Fin(p.exitCapRate))
       /\ loc.saleProceeds
            = Sub(loc.salePrice, Mul(totalProjectCost(p), Div(Num(p.ltv), Num(100))))

\* C12's case: the exit of a valid deal with debt has been valued.
C12_Witness ==
  /\ pc = "returned"
  /\ ValidParams(p)
  /\ p.holdingPeriod >= 2
  /\ Finite(loc.salePrice) /\ loc.salePrice.v > 0
  /\ Finite(loc.loanAmount) /\ loc.loanAmount.v > 0
  /\ p.interestRate > 0

\* The balance of a loan after one more payment of pmt at monthly rate r:
\* B_(k+1) = B_k * (1 + r) - pmt.
AfterPayment(b, r, pmt) == Sub(Mul(b, Add(Num(1), r)), pmt)

\* The balance after twelve more payments.
AfterTwelve(b, r, pmt) ==
  LET b1 == AfterPayment(b, r, pmt)
      b2 == AfterPayment(b1, r, pmt)
      b3 == AfterPayment(b2, r, pmt)
      b4 == AfterPayment(b3, r, pmt)
      b5 == AfterPayment(b4, r, pmt)
      b6 == AfterPayment(b5, r, pmt)
      b7 == AfterPayment(b6, r, pmt)
      b8 == AfterPayment(b7, r, pmt)
      b9 == AfterPayment(b8, r, pmt)
      b10 == AfterPayment(b9, r, pmt)
      b11 == AfterPayment(b10, r, pmt)
  IN AfterPayment(b11, r, pmt)

\* The balance after `years` more years of monthly payments.
RECURSIVE BalanceAfter(_, _, _, _)
BalanceAfter(years, b, r, pmt) ==
  IF years <= 0 THEN b
  ELSE LET next == AfterTwelve(b, r, pmt)
       IN IF IsNaN(next) THEN NaN ELSE BalanceAfter(years - 1, next, r, pmt)

\* B_n for the loan of parameters q paid at pmt a month: B_0 = loanAmount,
\* monthly rate interestRate / 12, n = loanTermYears * 12 payments.
FinalBalance(q, pmt) ==
  BalanceAfter(q.loanTermYears,
               Mul(totalProjectCost(q), Div(Num(q.ltv), Num(100))),
               Div(Fin(q.interestRate), Num(12)),
               pmt)

\* C13: with interestRate > 0 the annual debt service is not negative and is
\* 12 times the level monthly payment P that amortizes loanAmount over
\* loanTermYears * 12 payments at the monthly rate interestRate / 12: the
\* balance recurrence B_0 = loanAmount, B_(k+1) = B_k * (1 + r) - P ends at
\* zero.  At the resolution of the number format "ends at zero" is: paying
\* 0.5% less than P leaves a balance, paying 0.5% more overpays.
C13_DebtServiceAmortizes ==
  (pc = "returned" /\ ValidParams(p) /\ p.interestRate > 0) =>
    LET ads == metrics.annualDebtService
        P == Div(ads, Num(12))
        under == FinalBalance(p, Mul(P, Dec(995, 1000)))
        over == FinalBalance(p, Mul(P, Dec(1005, 1000)))
    IN /\ Finite(ads) /\ ads.v >= 0
       /\ Finite(under) /\ under.v >= 0
       /\ Finite(over) /\ over.v <= 0

\* C13's case: the debt service of a valid deal with a loan at interest has
\* been computed and returned.
C13_Witness ==
  /\ pc = "returned"
  /\ ValidParams(p)
  /\ p.interestRate > 0
  /\ Finite(metrics.loanAmount) /\ metrics.loanAmount.v > 0
  /\ Finite(metrics.annualDebtService) /\ metrics.annualDebtService.v > 0

\* C14: with interestRate = 0 the amortization formula is not evaluated and
\* the annual debt service is loanAmount / (loanTermYears * 12) * 12, a
\* finite number: nothing is divided by zero.
C14_ZeroInterestStraightLine ==
  (pc # "start" /\ ValidParams(p) /\ p.interestRate = 0) =>
    /\ loc.annualDebtService
         = Mul(Div(loc.loanAmount, Num(p.loanTermYears * 12)), Num(12))
    /\ Finite(loc.annualDebtService)

\* C14's case: the debt service of a valid loan at zero interest has been
\* computed.
C14_Witness ==
  /\ pc = "returned"
  /\ ValidParams(p)
  /\ p.interestRate = 0
  /\ Finite(loc.loanAmount) /\ loc.loanAmount.v > 0
  /\ Finite(metrics.annualDebtService) /\ metrics.annualDebtService.v > 0

\* C15: for valid inputs totalProjectCost = purchasePrice + constructionCost
\* + closingCosts, loanAmount = totalProjectCost * ltv / 100, and loanAmount
\* + equityRequired = totalProjectCost.
C15_CapitalStack ==
  ReturnedValid =>
    /\ metrics.totalProjectCost
         = Add(Add(Fin(p.purchasePrice), Fin(p.constructionCost)), Fin(p.closingCosts))
    /\ metrics.loanAmount
         = Mul(Div(metrics.totalProjectCost, Num(100)), Num(p.ltv))
    /\ Add(metrics.loanAmount, metrics.equityRequired) = metrics.totalProjectCost

\* C15's case: the capital stack of a valid deal with both debt and equity
\* has been returned.
C15_Witness ==
  /\ ReturnedValid
  /\ p.ltv < 100
  /\ Finite(metrics.loanAmount) /\ metrics.loanAmount.v > 0
  /\ Finite(metrics.equityRequired) /\ metrics.equityRequired.v > 0

\* An amount of dollars as a number of the model (money unit: $100,000).
Dollars(n) == Fin((n \div 100000) * Scale + ((n % 100000) * Scale) \div 100000)

\* C17: for the page's default state the engine yields totalProjectCost
\* 43,000,000, loanAmount 32,250,000, equityRequired 10,750,000,
\* grossPotentialRent 2,880,000, vacancyLoss 144,000, effectiveGrossIncome
\* 2,736,000, operatingExpenses 957,600, netOperatingIncome 1,778,400, and
\* annualCashFlows of exactly 10 entries.
C17_DefaultScenario ==
  (pc = "returned" /\ p = DefaultParams) =>
    /\ metrics.totalProjectCost = Dollars(43000000)
    /\ metrics.loanAmount = Dollars(32250000)
    /\ metrics.equityRequired = Dollars(10750000)
    /\ grossPotentialRent(p) = Dollars(2880000)
    /\ vacancyLoss(p) = Dollars(144000)
    /\ effectiveGrossIncome(p) = Dollars(2736000)
    /\ operatingExpenses(p) = Dollars(957600)
    /\ metrics.netOperatingIncome = Dollars(1778400)
    /\ Len(metrics.annualCashFlows) = 10

\* C17's case: metrics returned for the default state.
C17_Witness ==
  /\ pc = "returned"
  /\ p = DefaultParams
  /\ p.totalUnits = 200 /\ p.holdingPeriod = 10 /\ p.ltv = 75
  /\ metrics.totalProjectCost = Fin(430 * Scale)

\* x < y and x <= y for finite numbers.
Less(x, y) == Finite(x) /\ Finite(y) /\ x.v < y.v
LessEq(x, y) == Finite(x) /\ Finite(y) /\ x.v <= y.v

\* The parameters p with another rent.
WithRent(r) == [p EXCEPT !.avgMonthlyRent = r]

C18_MetricsNeverStale ==
  pc = "returned" =>
    /\ p = ui
    /\ calls # <<>>
    /\ calls[Len(calls)] = [params |-> ui, metrics |-> metrics]
    /\ metrics.totalProjectCost = totalProjectCost(ui)
    /\ metrics.loanAmount = loanAmount(ui)
    /\ metrics.equityRequired = equityRequired(ui)
    /\ metrics.annualDebtService = annualDebtService(ui)
    /\ metrics.netOperatingIncome = netOperatingIncome(ui)
    /\ Len(metrics.annualCashFlows) = ui.holdingPeriod
    /\ metrics.salePrice = Locals(ui).salePrice

\* C18's case: the page is at rest after two edits that each changed a
\* parameter and caused a recomputation.
C18_Witness ==
  /\ pc = "returned"
  /\ edits >= 2
  /\ Len(calls) >= 3
  /\ ui # DefaultParams
  /\ calls[Len(calls) - 1].params # ui

\* C19: when an edit has made the parameters invalid the page goes on
\* showing the metrics computed from the last valid parameters: no
\* computation runs on the invalid parameters and the metrics shown come
\* from valid ones.
C19_InvalidEditKeepsMetrics ==
  ~ValidParams(ui) => (pc = "returned" /\ ValidParams(p))

\* C20: two runs of the computation on identical parameters return
\* identical metrics, whatever runs on other parameters came before or
\* between them.
C20_SameParametersSameMetrics ==
  \A i, j \in 1 .. Len(calls) :
    calls[i].params = calls[j].params => calls[i].metrics = calls[j].metrics

\* C20's case: the computation has run twice on the same parameters with a
\* run on other parameters between the two.
C20_Witness ==
  \E i, k, j \in 1 .. Len(calls) :
    /\ i < k /\ k < j
    /\ calls[i].params = calls[j].params
    /\ calls[k].params # calls[i].params

\* C25: for every parameter record that satisfies the data model's invariant,
\* loan-to-value 100 (equityRequired = 0) included, the returned equity
\* multiple (totalReturn) and irr are finite numbers: nothing is divided by
\* zero.
C25_ValidInputsGiveFiniteResults ==
  ReturnedValid => Finite(metrics.totalReturn) /\ Finite(metrics.irr)


\* The levels the flags give for a label.
LevelsOf(label) ==
  {risk[i].level : i \in {j \in DOMAIN risk : risk[j].label = label}}

\* C29: the risk flags are a total function of the inputs with exactly one
\* level each: Financing Risk is High iff ltv > 80, Medium iff
\* 70 < ltv <= 80, Low iff ltv <= 70; Construction Risk is High iff
\* constructionCost > 20,000,000, Medium iff 10,000,000 < constructionCost
\* <= 20,000,000, Low otherwise; Market Risk is always Medium and Regulatory
\* Risk always Low; no other parameter has a part in them.
C29_RiskFlags ==
  risk # <<>> =>
    LET ltv == ui.ltv
        cost == ui.constructionCost
    IN /\ Len(risk) = 4
       /\ {risk[i].label : i \in DOMAIN risk}
            = {"Financing Risk", "Market Risk", "Construction Risk", "Regulatory Risk"}
       /\ LevelsOf("Financing Risk")
            = {IF ltv > 80 THEN "High" ELSE IF ltv <= 70 THEN "Low" ELSE "Medium"}
       /\ (LevelsOf("Financing Risk") = {"Medium"}) = (70 < ltv /\ ltv <= 80)
       /\ LevelsOf("Construction Risk")
            = {IF cost > Dollars(20000000).v THEN "High"
               ELSE IF cost > Dollars(10000000).v THEN "Medium" ELSE "Low"}
       /\ LevelsOf("Market Risk") = {"Medium"}
       /\ LevelsOf("Regulatory Risk") = {"Low"}

\* The flags are computed at both boundaries: ltv = 80 and a construction
\* cost of 20,000,000.
C29_Witness ==
  /\ risk # <<>>
  /\ ui.ltv = 80
  /\ ui.constructionCost = Dollars(20000000).v
  /\ LevelsOf("Financing Risk") = {"Medium"}
  /\ LevelsOf("Construction Risk") = {"Medium"}


\* The answer resp is a successful one: it reports success and carries data.
Success(resp) == resp.kind = "json" /\ resp.success /\ resp.data # <<>>

\* C22: a market-data fetch only seeds the rent input: the step that takes
\* a successful answer sets avgMonthlyRent to the median gross rent of the
\* answer and demographics to its data, and leaves every other deal
\* parameter as it is; and a request is sent only by a click on Fetch Data,
\* never by a step of the computation.
C22_FetchSeedsRentOnly ==
  [][/\ (request # <<>> /\ request' = <<>> /\ Success(lastResponse'[1])) =>
          /\ ui'.avgMonthlyRent = lastResponse'[1].data[1].housing.medianGrossRent
          /\ \A f \in DOMAIN ui \ {"avgMonthlyRent"} : ui'[f] = ui[f]
          /\ demographics' = lastResponse'[1].data
          /\ dealName' = dealName
     /\ (request' # request /\ request' # <<>>) =>
          /\ fetches' = fetches + 1
          /\ pc = "returned" /\ pc' = "returned"
    ]_vars

\* A successful answer has seeded a rent other than the default one, the
\* metrics have been computed again for it, and the unit count typed before
\* is still there.
C22_Witness ==
  /\ pc = "returned"
  /\ lastResponse # <<>> /\ Success(lastResponse[1])
  /\ demographics = lastResponse[1].data
  /\ ui.avgMonthlyRent = demographics[1].housing.medianGrossRent
  /\ ui.avgMonthlyRent # DefaultParams.avgMonthlyRent
  /\ ui.totalUnits # DefaultParams.totalUnits
  /\ calls[Len(calls)].params = ui

\* C28: a market-data fetch that fails (ZIP code not 5 characters,
\* unsuccessful answer, or network error) sets demographicsError and leaves
\* the demographics loaded before and all deal parameters as they are; a
\* ZIP code that is not 5 characters sends no request; and whenever no fetch
\* is under way, loadingDemographics is false.
C28_FailedFetch ==
  /\ [](request = <<>> => ~loadingDemographics)
  /\ [][/\ (fetches' = fetches + 1 /\ Len(zipcode) # 5) =>
             /\ demographicsError' # <<>>
             /\ request' = <<>>
             /\ demographics' = demographics /\ ui' = ui
        /\ (request # <<>> /\ request' = <<>> /\ ~Success(lastResponse'[1])) =>
             /\ demographicsError' # <<>>
             /\ demographics' = demographics /\ ui' = ui
        /\ (request # <<>> /\ request' = <<>>) => ~loadingDemographics'
       ]_vars

\* A fetch has failed after an earlier one had loaded demographics: the
\* error is shown and the demographics are still there.
C28_Witness ==
  /\ lastResponse # <<>> /\ ~Success(lastResponse[1])
  /\ request = <<>> /\ ~loadingDemographics
  /\ demographics # <<>>
  /\ demographicsError # <<>>


\* The calls whose request is executing: started and not ended.
Executing ==
  {trace[i].id : i \in {j \in DOMAIN trace : trace[j].ev = "start"}}
    \ {trace[i].id : i \in {j \in DOMAIN trace : trace[j].ev = "end"}}

\* The calls of the events ev of the trace, in the order of the events.
IdsOf(ev) ==
  LET evs == SelectSeq(trace, LAMBDA e : e.ev = ev)
  IN [i \in 1 .. Len(evs) |-> evs[i].id]

\* C23: geocoding requests are rate limited: whatever calls are made and
\* whenever, every request sent through the queue starts at least
\* RATE_LIMIT_DELAY (1000 ms) after every queued request that completed
\* before it.
C23_RateLimited ==
  \A i \in DOMAIN trace : \A j \in DOMAIN trace :
    (i < j /\ trace[i].ev = "end" /\ trace[j].ev = "start") =>
      trace[j].t >= trace[i].t + 1000

\* A request has started exactly 1000 ms after the one before it completed,
\* having been enqueued while that one was executing.
C23_Witness ==
  \E i \in DOMAIN trace : \E j \in DOMAIN trace : \E k \in DOMAIN trace :
    /\ k < i /\ i < j
    /\ trace[i].ev = "end" /\ trace[j].ev = "start" /\ trace[k].ev = "enqueue"
    /\ trace[k].id = trace[j].id
    /\ trace[j].t = trace[i].t + 1000

\* C24: a lookup gives the stored result of its key if and only if the entry
\* was stored at most 24 hours before; the lookup of an older entry removes
\* it and is a miss; an entry is stored only with the non-null result of a
\* request that has just resolved, under the time of that moment; and a
\* call that hits the cache enqueues no request.
C24_Cache ==
  [][/\ \A id \in Len(geoCalls) + 1 .. Len(geoCalls') :
          LET call == geoCalls'[id]
              key == call.key
              Fresh == /\ key \in DOMAIN cache
                       /\ now - cache[key].timestamp <= 24 * 60 * 60 * 1000
          IN key # <<>> =>
               IF Fresh
               THEN /\ call.returned /\ call.promise = "none"
                    /\ call.value = IF call.fn = "reverseGeocode"
                                    THEN <<cache[key].result.displayName>>
                                    ELSE <<cache[key].result>>
                    /\ key \in DOMAIN cache' /\ cache'[key] = cache[key]
                    /\ \A e \in DOMAIN trace' : trace'[e].id # id
                    /\ \A q \in DOMAIN requestQueue' : requestQueue'[q] # id
               ELSE /\ ~call.returned /\ call.promise = "pending"
                    /\ key \notin DOMAIN cache'
     /\ \A key \in DOMAIN cache' :
          (key \notin DOMAIN cache \/ cache'[key] # cache[key]) =>
            /\ cache'[key].timestamp = now
            /\ \E id \in DOMAIN geoCalls :
                 /\ geoCalls[id].key = key
                 /\ geoCalls[id].promise = "pending"
                 /\ geoCalls'[id].promise = "resolved"
                 /\ geoCalls'[id].value # <<>>
    ]_vars

\* The last call has hit an entry that is exactly 24 hours old.
C24_Witness ==
  /\ geoCalls # <<>>
  /\ LET call == geoCalls[Len(geoCalls)]
     IN /\ call.promise = "none" /\ call.value # <<>>
        /\ call.key \in DOMAIN cache
        /\ now = cache[call.key].timestamp + 24 * 60 * 60 * 1000

\* C26: at most one queued request is executing at any time, and the queued
\* requests are started in the order in which they were enqueued.
C26_OneAtATimeInOrder ==
  /\ Cardinality(Executing) <= 1
  /\ Cardinality({i \in DOMAIN loops : loops[i].at = "request"}) <= 1
  /\ LET started == IdsOf("start")
         enqueued == IdsOf("enqueue")
     IN /\ Len(started) <= Len(enqueued)
        /\ started = SubSeq(enqueued, 1, Len(started))

\* Two requests were enqueued at the same moment (by batchGeocode) while a
\* third was executing, and all three have been started.
C26_Witness ==
  /\ Len(IdsOf("start")) = 3
  /\ \E i \in DOMAIN trace :
       /\ i + 2 <= Len(trace)
       /\ trace[i].ev = "start"
       /\ trace[i + 1].ev = "enqueue" /\ trace[i + 2].ev = "enqueue"
       /\ trace[i + 1].t = trace[i + 2].t

\* The queued request of call id waits; it has been settled.
IsPending(id) == id <= Len(geoCalls) /\ geoCalls[id].promise = "pending"
IsSettled(id) ==
  id <= Len(geoCalls) /\ geoCalls[id].promise \in {"resolved", "rejected"}

\* C27: every request placed in the queue is eventually executed and its
\* promise settled, provided each network call completes: while the queue
\* holds a request, isProcessing is true and a loop is under way; a promise
\* is rejected only when its request has thrown (reverseGeocode); and
\* every pending promise is settled in the end.
C27_EveryRequestSettles ==
  /\ [](requestQueue # <<>> => isProcessing /\ loops # <<>>)
  /\ [](\A id \in DOMAIN geoCalls :
          geoCalls[id].promise = "rejected" => geoCalls[id].fn = "reverseGeocode")
  /\ \A id \in 1 .. MaxCalls : IsPending(id) ~> IsSettled(id)

\* A request enqueued while another was executing has been resolved after
\* that other one had thrown.
C27_Witness ==
  \E i \in DOMAIN trace : \E j \in DOMAIN trace : \E k \in DOMAIN trace :
    /\ i < j /\ j < k
    /\ trace[i].ev = "start" /\ trace[j].ev = "enqueue" /\ trace[k].ev = "end"
    /\ trace[i].id = trace[k].id
    /\ geoCalls[trace[i].id].promise = "rejected"
    /\ geoCalls[trace[j].id].promise = "resolved"


\* What a call holds, without the note of whether another call ran beside it.
Own(run) == [run EXCEPT !.overlapped = FALSE]

\* C21: computations called by several callers at once do not interfere:
\* a step of one call changes nothing another call holds, calculateIRR
\* leaves the sequence it was given as it is, and calls with the same
\* parameters return the same record whether they ran alone or beside
\* other calls, in whatever order their steps were taken.
C21_CallsDoNotInterfere ==
  /\ [](\A i \in DOMAIN done : \A j \in DOMAIN done :
          done[i].params = done[j].params => done[i].metrics = done[j].metrics)
  /\ [][\A c \in Callers :
          /\ (runs[c].pc = "irr" /\ runs'[c].pc \in {"irr", "irrdone"}) =>
               runs'[c].values = runs[c].values
          /\ Own(runs'[c]) # Own(runs[c]) =>
               \A d \in Callers \ {c} : Own(runs'[d]) = Own(runs[d])
       ]_vars

\* A call that ran beside a call with other parameters has returned the
\* record that a call with its parameters returned when it ran alone.
C21_Witness ==
  \E i \in DOMAIN done : \E j \in DOMAIN done : \E k \in DOMAIN done :
    /\ done[i].params = done[j].params
    /\ done[i].metrics = done[j].metrics
    /\ done[i].overlapped /\ ~done[j].overlapped
    /\ done[k].overlapped /\ done[k].params # done[i].params
    /\ done[k].caller # done[i].caller

====
